---- MODULE Spec2Model ----
(***************************************************************************)
(* Model of seo-server/frontend_service.go: the FrontendService that       *)
(* serves index.html with injected head metadata, /robots.txt,             *)
(* /sitemap.xml and /blog/:blogSlug.                                        *)
(*                                                                         *)
(* Strings are TLA+ strings (Len, SubSeq and \o act on them as on Go       *)
(* byte strings; all text here is ASCII).  The two files under dist/ are   *)
(* the environment: it may rewrite or remove them at any time.             *)
(***************************************************************************)
EXTENDS Integers, Sequences, FiniteSets, TLC

VARIABLES
  InstanceURL,       \* FrontendService.InstanceURL
  pc,                \* "new" -> "fileRoutes" -> "serving" (position inside Serve)
  tmplFile,          \* dist/index.html as it is on disk now
  dataFile,          \* dist/blog/data.json as it is on disk now
  defaultIndexHTML,  \* captured by registerFileRoutes
  fileRoutesBlogs,   \* blogs captured by registerFileRoutes
  rawIndexHTML,      \* captured by registerBlogRoutes
  blogRoutesBlogs,   \* blogs captured by registerBlogRoutes
  loadErr,           \* the errors the loaders discard (ghost)
  reads,             \* os.ReadFile calls so far: two startup counts, and whether a
                     \* request handler has read dist/index.html (ghost)
  envChanges,        \* number of environment writes so far
  resp               \* the last response written

vars == <<InstanceURL, pc, tmplFile, dataFile, defaultIndexHTML, fileRoutesBlogs,
          rawIndexHTML, blogRoutesBlogs, loadErr, reads, envChanges, resp>>

----------------------------------------------------------------------------
(* Bounds of the model *)

\* environment writes to the two files over one process lifetime
MaxEnvChanges == 1

----------------------------------------------------------------------------
(* String helpers: the parts of package strings the code calls *)

Min(S) == CHOOSE m \in S : \A n \in S : m <= n

\* positions at which old occurs in s, at or after from
Occurrences(s, old, from) ==
  {i \in from..(Len(s) - Len(old) + 1) : SubSeq(s, i, i + Len(old) - 1) = old}

Contains(s, sub) == Occurrences(s, sub, 1) # {}

\* number of (possibly overlapping) occurrences
Count(s, sub) == Cardinality(Occurrences(s, sub, 1))

RECURSIVE ReplaceFrom(_, _, _, _)
ReplaceFrom(s, old, new, from) ==
  LET hits == Occurrences(s, old, from)
  IN IF hits = {}
       THEN SubSeq(s, from, Len(s))
       ELSE LET i == Min(hits)
            IN SubSeq(s, from, i - 1) \o new \o ReplaceFrom(s, old, new, i + Len(old))

\* strings.ReplaceAll for a non-empty old: leftmost non-overlapping matches,
\* the inserted text is not scanned again
ReplaceAll(s, old, new) == ReplaceFrom(s, old, new, 1)

RECURSIVE Join(_, _)
\* strings.Join
Join(list, sep) ==
  IF list = <<>> THEN ""
  ELSE IF Len(list) = 1 THEN list[1]
  ELSE list[1] \o sep \o Join(Tail(list), sep)

\* template.HTMLEscapeString, one character (the NUL byte, which it turns into
\* U+FFFD, is not a character of the texts here)
EscapeChar(c) ==
  CASE c = "\"" -> "&#34;"
    [] c = "'"  -> "&#39;"
    [] c = "&"  -> "&amp;"
    [] c = "<"  -> "&lt;"
    [] c = ">"  -> "&gt;"
    [] OTHER    -> c

RECURSIVE EscapeFrom(_, _)
EscapeFrom(s, i) ==
  IF i > Len(s) THEN "" ELSE EscapeChar(SubSeq(s, i, i)) \o EscapeFrom(s, i + 1)

\* a conversion that forgets to escape
NoEscape(s) == s

\* an escaper that handles the angle brackets and the ampersand only
EscapeAnglesOnly(s) ==
  ReplaceAll(ReplaceAll(ReplaceAll(s, "&", "&amp;"), "<", "&lt;"), ">", "&gt;")

\* template.HTMLEscapeString
HTMLEscapeString(s) == EscapeFrom(s, 1)

----------------------------------------------------------------------------
(* Metadata *)

HeadPlaceholder == "<!-- star-history.head.placeholder -->"
BodyPlaceholder == "<!-- star-history.body.placeholder -->"

getDefaultMetadata ==
  [Title       |-> "GitHub Star History",
   Description |-> "View and compare GitHub star history graph of open source projects.",
   ImageURL    |-> "https://www.star-history.com/star-history.webp"]

\* Metadata.String
String(m) ==
  Join(<<"<title>" \o m.Title \o "</title>",
         "<meta name=\"description\" content=\"" \o m.Description \o "\" />",
         "<meta property=\"og:title\" content=\"" \o m.Title \o "\" />",
         "<meta property=\"og:description\" content=\"" \o m.Description \o "\" />",
         "<meta property=\"og:image\" content=\"" \o m.ImageURL \o "\" />",
         "<meta property=\"og:type\" content=\"website\" />",
         "<meta property=\"twitter:title\" content=\"" \o m.Title \o "\" />",
         "<meta property=\"twitter:description\" content=\"" \o m.Description \o "\" />",
         "<meta property=\"twitter:image\" content=\"" \o m.ImageURL \o "\" />",
         "<meta name=\"twitter:card\" content=\"summary_large_image\" />",
         "<meta name=\"twitter:site\" content=\"star-history.com\" />",
         "<meta name=\"twitter:creator\" content=\"bytebase\" />">>, "\n")

\* the overrides without the escaping
BlogMetadataUnescaped(url, blog) ==
  [Title       |-> IF blog.Title # ""
                     THEN NoEscape(blog.Title \o " - GitHub Star History")
                     ELSE getDefaultMetadata.Title,
   Description |-> IF blog.Excerpt # ""
                     THEN NoEscape(blog.Excerpt)
                     ELSE getDefaultMetadata.Description,
   ImageURL    |-> IF blog.FeatureImage # ""
                     THEN NoEscape(url \o blog.FeatureImage)
                     ELSE getDefaultMetadata.ImageURL]

\* the overrides applied whether or not the entry field is empty
BlogMetadataAlways(url, blog) ==
  [Title       |-> HTMLEscapeString(blog.Title \o " - GitHub Star History"),
   Description |-> HTMLEscapeString(blog.Excerpt),
   ImageURL    |-> HTMLEscapeString(url \o blog.FeatureImage)]

\* the Metadata value generateBlogMetadata builds before rendering it
BlogMetadata(url, blog) ==
  [Title       |-> IF blog.Title # ""
                     THEN HTMLEscapeString(blog.Title \o " - GitHub Star History")
                     ELSE getDefaultMetadata.Title,
   Description |-> IF blog.Excerpt # ""
                     THEN HTMLEscapeString(blog.Excerpt)
                     ELSE getDefaultMetadata.Description,
   ImageURL    |-> IF blog.FeatureImage # ""
                     THEN HTMLEscapeString(url \o blog.FeatureImage)
                     ELSE getDefaultMetadata.ImageURL]

generateBlogMetadata(url, blog) == String(BlogMetadata(url, blog))

----------------------------------------------------------------------------
(* The files and their loaders *)

NoFile == [exists |-> FALSE]
File(content) == [exists |-> TRUE, content |-> content]

\* os.ReadFile of an HTML file: the bytes, and the error the callers discard
ReadFile(f) ==
  IF f.exists THEN [bytes |-> f.content, err |-> FALSE]
              ELSE [bytes |-> "", err |-> TRUE]

\* getRawIndexHTML, applied to what dist/index.html holds at the time of the call
getRawIndexHTML(f) == ReadFile(f).bytes

\* getDefaultIndexHTML, likewise
getDefaultIndexHTML(f) ==
  ReplaceAll(getRawIndexHTML(f), HeadPlaceholder, String(getDefaultMetadata))

(* The content of dist/blog/data.json is kept as the JSON value its bytes     *)
(* spell: [t |-> "invalid"] for bytes that are no JSON text, an array of      *)
(* items, or some other JSON value.  An item is null, an object whose four    *)
(* members are each a string, a number or absent, or another JSON value.      *)
JStr(s)  == [t |-> "string", s |-> s]
JNum     == [t |-> "number"]
JAbsent  == [t |-> "absent"]
JNull    == [t |-> "null"]
JInvalid == [t |-> "invalid"]
JArray(items) == [t |-> "array", items |-> items]
JObject(slug, title, excerpt, featureImage) ==
  [t |-> "object", slug |-> slug, title |-> title, excerpt |-> excerpt,
   featureImage |-> featureImage]

\* a nil *BlogFrontmatter
NilBlog == [nil |-> TRUE]

\* json.Unmarshal into a string field: a string is stored, an absent member
\* leaves the zero value, a value of another type is skipped and reported
FieldValue(v) == IF v.t = "string" THEN v.s ELSE ""
FieldErr(v) == v.t \notin {"string", "absent"}

\* json.Unmarshal of one array item into a *BlogFrontmatter
DecodeItem(item) ==
  IF item.t = "null" THEN NilBlog
  ELSE IF item.t = "object"
    THEN [Slug         |-> FieldValue(item.slug),
          Title        |-> FieldValue(item.title),
          Excerpt      |-> FieldValue(item.excerpt),
          FeatureImage |-> FieldValue(item.featureImage)]
    ELSE [Slug |-> "", Title |-> "", Excerpt |-> "", FeatureImage |-> ""]

ItemErr(item) ==
  IF item.t = "null" THEN FALSE
  ELSE IF item.t = "object"
    THEN FieldErr(item.slug) \/ FieldErr(item.title) \/ FieldErr(item.excerpt)
           \/ FieldErr(item.featureImage)
    ELSE TRUE

\* json.Unmarshal of an array into []*BlogFrontmatter: every item takes a slot
DecodeArray(items) == [i \in 1..Len(items) |-> DecodeItem(items[i])]

\* getBlogForntmatters, applied to what dist/blog/data.json holds at the time
\* of the call: the slice returned, and the error json.Unmarshal returned
getBlogForntmatters(f) ==
  IF ~f.exists THEN [blogs |-> <<>>, err |-> TRUE]
  ELSE IF f.content.t = "array"
    THEN [blogs |-> DecodeArray(f.content.items),
          err   |-> \E i \in 1..Len(f.content.items) : ItemErr(f.content.items[i])]
    ELSE [blogs |-> <<>>, err |-> TRUE]

----------------------------------------------------------------------------
(* The request handlers, as functions of the state they read *)

StatusOK == 200

Reply(route, slug, ctype, body) ==
  [route |-> route, slug |-> slug, panicked |-> FALSE, status |-> StatusOK,
   ctype |-> ctype, body |-> body, found |-> FALSE]

\* a handler that dereferences a nil *BlogFrontmatter panics: it writes no
\* status and no body of its own
Panic(route, slug) ==
  [route |-> route, slug |-> slug, panicked |-> TRUE, status |-> 0,
   ctype |-> "", body |-> "", found |-> FALSE]

\* GET /robots.txt
RobotsHandler ==
  Reply("robots", "", "text/plain",
        "User-agent: *\nAllow: /\nHost: " \o InstanceURL \o "\nSitemap: "
          \o InstanceURL \o "/sitemap.xml")

UrlsetOpen ==
  "<urlset xmlns=\"http://www.sitemaps.org/schemas/sitemap/0.9\" xmlns:news=\"http://www.google.com/schemas/sitemap-news/0.9\" xmlns:xhtml=\"http://www.w3.org/1999/xhtml\" xmlns:mobile=\"http://www.google.com/schemas/sitemap-mobile/1.0\" xmlns:image=\"http://www.google.com/schemas/sitemap-image/1.1\" xmlns:video=\"http://www.google.com/schemas/sitemap-video/1.1\">"

\* the urlsets slice the loop of the /sitemap.xml handler builds
SitemapUrlsets(url, blogs) ==
  [i \in 1..Len(blogs) |->
     "<url><loc>" \o url \o "/blog/" \o blogs[i].Slug \o "</loc></url>"]

\* the handler of GET /sitemap.xml, given s.InstanceURL and the blogs its
\* closure holds; blog.Slug on a nil entry panics
SitemapReply(url, blogs) ==
  IF \E i \in 1..Len(blogs) : blogs[i] = NilBlog
    THEN Panic("sitemap", "")
    ELSE Reply("sitemap", "", "application/xml",
               UrlsetOpen \o Join(SitemapUrlsets(url, blogs), "\n") \o "</urlset>")

\* the scan of getBlogFrontmatterBySlug stops at the first entry that is nil
\* (blog.Slug panics) or whose Slug is the one asked for; 0 when it runs through
ScanStop(blogs, slug) ==
  LET stops == {i \in 1..Len(blogs) : blogs[i] = NilBlog \/ blogs[i].Slug = slug}
  IN IF stops = {} THEN 0 ELSE Min(stops)

\* the handler of GET /blog/:blogSlug, given s.InstanceURL, the blogs and the
\* rawIndexHTML its closure holds, and dist/index.html as it is on disk when
\* the request comes: for an unknown slug the handler calls
\* getDefaultIndexHTML(), which reads the file again
BlogReply(url, blogs, raw, file, blogSlug) ==
  LET i == ScanStop(blogs, blogSlug)
  IN IF i = 0
       THEN Reply("blog", blogSlug, "text/html", getDefaultIndexHTML(file))
     ELSE IF blogs[i] = NilBlog
       THEN Panic("blog", blogSlug)
     ELSE LET blog == blogs[i]
              head == generateBlogMetadata(url, blog)
              withHead == ReplaceAll(raw, HeadPlaceholder, head)
              indexHTML == ReplaceAll(withHead, BodyPlaceholder,
                                      "<!-- star-history.blog." \o blogSlug \o " -->")
          IN [route |-> "blog", slug |-> blogSlug, panicked |-> FALSE,
              status |-> StatusOK, ctype |-> "text/html", body |-> indexHTML,
              found |-> TRUE,
              \* what the handler worked from (not part of the reply)
              blog |-> blog, metadata |-> BlogMetadata(url, blog), head |-> head]

\* a sitemap closure that loads the catalog again on every request
SitemapInputsReloaded == <<InstanceURL, getBlogForntmatters(dataFile).blogs>>

\* the state the /sitemap.xml closure reads: s.InstanceURL and the blogs that
\* registerFileRoutes loaded
SitemapInputs == <<InstanceURL, fileRoutesBlogs>>

\* the state the /blog/:blogSlug closure reads: s.InstanceURL, the blogs and
\* the rawIndexHTML that registerBlogRoutes loaded, and dist/index.html
BlogInputs == <<InstanceURL, blogRoutesBlogs, rawIndexHTML, tmplFile>>

\* GET /sitemap.xml
SitemapHandler == SitemapReply(SitemapInputs[1], SitemapInputs[2])

\* GET * (every path no other route takes)
CatchAllHandler == Reply("catchall", "", "text/html", defaultIndexHTML)

\* GET /blog/:blogSlug
BlogHandler(blogSlug) ==
  BlogReply(BlogInputs[1], BlogInputs[2], BlogInputs[3], BlogInputs[4], blogSlug)

\* whether the handler of GET /blog/:blogSlug calls getDefaultIndexHTML
BlogHandlerReadsTemplate(blogSlug) == ScanStop(blogRoutesBlogs, blogSlug) = 0

----------------------------------------------------------------------------
(* The inputs the model draws from *)

InstanceURLs == {"https://example.com"}

Templates ==
  {"<html><head><!-- star-history.head.placeholder --></head><body><div id=\"app\"></div><!-- star-history.body.placeholder --></body></html>",
   "<!DOCTYPE html><html lang=\"en\"><head><meta charset=\"UTF-8\" /><!-- star-history.head.placeholder --></head><body><!-- star-history.body.placeholder --><div id=\"root\"></div></body></html>"}

TemplateFiles == {NoFile} \cup {File(t) : t \in Templates}

ItemHello == JObject(JStr("hello"), JStr("Hello"), JStr("World"), JStr("/hello.png"))
ItemPlain == JObject(JStr("plain"), JAbsent, JAbsent, JAbsent)
ItemHalf  == JObject(JStr("half"), JStr("Half"), JStr(""), JAbsent)
ItemEvil  == JObject(JStr("evil"), JStr("<script>alert(\"x\")</script>"),
                     JStr(HeadPlaceholder),
                     JStr("/x.png\"><!-- star-history.body.placeholder --><title>&'"))
ItemNoSlug  == JObject(JAbsent, JStr("Orphan"), JAbsent, JAbsent)
ItemBadType == JObject(JNum, JStr("Typed"), JAbsent, JAbsent)

DataFiles ==
  {NoFile,
   File(JInvalid),
   File(JArray(<<>>)),
   File(JArray(<<ItemPlain, ItemEvil, ItemHalf, ItemHello>>)),
   File(JArray(<<ItemNoSlug, ItemHello, ItemBadType>>)),
   File(JArray(<<ItemHello, JNull>>))}

RequestSlugs == {"hello", "plain", "half", "evil", "unknown-slug"}

----------------------------------------------------------------------------
(* The state machine *)

Init ==
  /\ InstanceURL \in InstanceURLs
  /\ pc = "new"
  /\ tmplFile \in TemplateFiles
  /\ dataFile \in DataFiles
  /\ defaultIndexHTML = ""
  /\ fileRoutesBlogs = <<>>
  /\ rawIndexHTML = ""
  /\ blogRoutesBlogs = <<>>
  /\ loadErr = [defaultIndexHTML |-> FALSE, fileRoutesBlogs |-> FALSE,
                rawIndexHTML |-> FALSE, blogRoutesBlogs |-> FALSE]
  /\ reads = [tmplStartup |-> 0, dataStartup |-> 0, tmplHandler |-> FALSE]
  /\ envChanges = 0
  /\ resp = [route |-> "none"]

\* Serve, first half: registerFileRoutes loads the default page and the blogs
RegisterFileRoutes ==
  /\ pc = "new"
  /\ defaultIndexHTML' = getDefaultIndexHTML(tmplFile)
  /\ fileRoutesBlogs' = getBlogForntmatters(dataFile).blogs
  /\ loadErr' = [loadErr EXCEPT !.defaultIndexHTML = ReadFile(tmplFile).err,
                                !.fileRoutesBlogs = getBlogForntmatters(dataFile).err]
  /\ reads' = [reads EXCEPT !.tmplStartup = @ + 1, !.dataStartup = @ + 1]
  /\ pc' = "fileRoutes"
  /\ UNCHANGED <<InstanceURL, tmplFile, dataFile, rawIndexHTML, blogRoutesBlogs,
                 envChanges, resp>>

\* Serve, second half: registerBlogRoutes loads the raw page and the blogs again
RegisterBlogRoutes ==
  /\ pc = "fileRoutes"
  /\ rawIndexHTML' = getRawIndexHTML(tmplFile)
  /\ blogRoutesBlogs' = getBlogForntmatters(dataFile).blogs
  /\ loadErr' = [loadErr EXCEPT !.rawIndexHTML = ReadFile(tmplFile).err,
                                !.blogRoutesBlogs = getBlogForntmatters(dataFile).err]
  /\ reads' = [reads EXCEPT !.tmplStartup = @ + 1, !.dataStartup = @ + 1]
  /\ pc' = "serving"
  /\ UNCHANGED <<InstanceURL, tmplFile, dataFile, defaultIndexHTML, fileRoutesBlogs,
                 envChanges, resp>>

GetRobots ==
  /\ pc = "serving"
  /\ resp' = RobotsHandler
  /\ UNCHANGED <<InstanceURL, pc, tmplFile, dataFile, defaultIndexHTML,
                 fileRoutesBlogs, rawIndexHTML, blogRoutesBlogs, loadErr, reads,
                 envChanges>>

GetSitemap ==
  /\ pc = "serving"
  /\ resp' = SitemapHandler
  /\ UNCHANGED <<InstanceURL, pc, tmplFile, dataFile, defaultIndexHTML,
                 fileRoutesBlogs, rawIndexHTML, blogRoutesBlogs, loadErr, reads,
                 envChanges>>

GetCatchAll ==
  /\ pc = "serving"
  /\ resp' = CatchAllHandler
  /\ UNCHANGED <<InstanceURL, pc, tmplFile, dataFile, defaultIndexHTML,
                 fileRoutesBlogs, rawIndexHTML, blogRoutesBlogs, loadErr, reads,
                 envChanges>>

GetBlog ==
  /\ pc = "serving"
  /\ \E blogSlug \in RequestSlugs :
       /\ resp' = BlogHandler(blogSlug)
       /\ IF BlogHandlerReadsTemplate(blogSlug)
            THEN reads' = [reads EXCEPT !.tmplHandler = TRUE]
            ELSE UNCHANGED reads
  /\ UNCHANGED <<InstanceURL, pc, tmplFile, dataFile, defaultIndexHTML,
                 fileRoutesBlogs, rawIndexHTML, blogRoutesBlogs, loadErr,
                 envChanges>>

\* the environment rewrites or removes dist/index.html
EnvTemplate ==
  /\ pc # "new"
  /\ envChanges < MaxEnvChanges
  /\ tmplFile' \in TemplateFiles \ {tmplFile}
  /\ envChanges' = envChanges + 1
  /\ UNCHANGED <<InstanceURL, pc, dataFile, defaultIndexHTML, fileRoutesBlogs,
                 rawIndexHTML, blogRoutesBlogs, loadErr, reads, resp>>

\* the environment rewrites or removes dist/blog/data.json
EnvData ==
  /\ pc # "new"
  /\ envChanges < MaxEnvChanges
  /\ dataFile' \in DataFiles \ {dataFile}
  /\ envChanges' = envChanges + 1
  /\ UNCHANGED <<InstanceURL, pc, tmplFile, defaultIndexHTML, fileRoutesBlogs,
                 rawIndexHTML, blogRoutesBlogs, loadErr, reads, resp>>

Next ==
  \/ RegisterFileRoutes
  \/ RegisterBlogRoutes
  \/ GetRobots
  \/ GetSitemap
  \/ GetCatchAll
  \/ GetBlog
  \/ EnvTemplate
  \/ EnvData

Spec == Init /\ [][Next]_vars

----------------------------------------------------------------------------
(* Helpers of the properties: readers of the produced text, written         *)
(* independently of the code that produced it                               *)

HasPrefix(s, pre) == Len(s) >= Len(pre) /\ SubSeq(s, 1, Len(pre)) = pre
HasSuffix(s, suf) == Len(s) >= Len(suf) /\ SubSeq(s, Len(s) - Len(suf) + 1, Len(s)) = suf

\* s without a prefix of length Len(pre) and a suffix of length Len(suf)
Between(s, pre, suf) == SubSeq(s, Len(pre) + 1, Len(s) - Len(suf))

\* the lines of s: the pieces between its newline characters
Lines(s) ==
  LET seps == Occurrences(s, "\n", 1)
      n == Cardinality(seps)
      \* the k-th newline; 0 and Len(s) + 1 stand for the two ends
      pos == [k \in 0..(n + 1) |->
                IF k = 0 THEN 0
                ELSE IF k = n + 1 THEN Len(s) + 1
                ELSE CHOOSE p \in seps : Cardinality({q \in seps : q < p}) = k - 1]
  IN [k \in 1..(n + 1) |-> SubSeq(s, pos[k - 1] + 1, pos[k] - 1)]

\* the character references an HTML parser resolves
Entities ==
  {<<"&lt;", "<">>, <<"&gt;", ">">>, <<"&amp;", "&">>, <<"&#34;", "\"">>, <<"&#39;", "'">>}

RECURSIVE UnescapeFrom(_, _)
\* the text an HTML parser reads from s, from position i on
UnescapeFrom(s, i) ==
  IF i > Len(s) THEN ""
  ELSE LET here == {e \in Entities : /\ i + Len(e[1]) - 1 <= Len(s)
                                     /\ SubSeq(s, i, i + Len(e[1]) - 1) = e[1]}
       IN IF here = {}
            THEN SubSeq(s, i, i) \o UnescapeFrom(s, i + 1)
            ELSE LET e == CHOOSE x \in here : TRUE
                 IN e[2] \o UnescapeFrom(s, i + Len(e[1]))

Unescape(s) == UnescapeFrom(s, 1)

\* s holds none of the characters that end a tag or a quoted attribute
NoRawMarkup(s) == ~Contains(s, "<") /\ ~Contains(s, ">") /\ ~Contains(s, "\"")

HasMarkup(s) == ~NoRawMarkup(s)

FoundBlogReply == resp.route = "blog" /\ ~resp.panicked /\ resp.found

\* the tag is pre..suf around a value that holds no raw markup character and
\* that a parser reads back as text
SafeTag(tag, pre, suf, text) ==
  /\ HasPrefix(tag, pre)
  /\ HasSuffix(tag, suf)
  /\ Len(tag) >= Len(pre) + Len(suf)
  /\ \A value \in {Between(tag, pre, suf)} :
       NoRawMarkup(value) /\ Unescape(value) = text

\* the text each Metadata field is meant to show for a blog
ShownTitle(blog) ==
  IF blog.Title # "" THEN blog.Title \o " - GitHub Star History" ELSE "GitHub Star History"
ShownDescription(blog) ==
  IF blog.Excerpt # "" THEN blog.Excerpt
  ELSE "View and compare GitHub star history graph of open source projects."
ShownImage(url, blog) ==
  IF blog.FeatureImage # "" THEN url \o blog.FeatureImage
  ELSE "https://www.star-history.com/star-history.webp"

----------------------------------------------------------------------------
(* The claims *)

\* C1: GET /blog/{slug} with a slug that matches no catalog entry returns
\* status 200 with exactly the body a catch-all path gets from the same
\* process, whatever happened to dist/index.html since startup.  (Stated for
\* the requests the handler replies to; a panic is left aside here.)
C1_UnknownSlugBodyIsCatchAllBody ==
  (resp.route = "blog" /\ ~resp.panicked /\ ~resp.found)
    => (resp.status = 200 /\ resp.body = CatchAllHandler.body)

\* C2: over one process lifetime dist/index.html and dist/blog/data.json are
\* each read exactly once, during startup, and no request handler reads them.
C2_EachFileReadOnceAtStartup ==
  pc = "serving"
    => (reads.tmplStartup = 1 /\ reads.dataStartup = 1 /\ ~reads.tmplHandler)

\* C3: the metadata generateBlogMetadata builds for an entry is the site
\* default with each field overridden if and only if the matching entry field
\* is non-empty: the title by escape(entry.title + " - GitHub Star History"),
\* the description by escape(entry.excerpt), the image by
\* escape(instanceURL + entry.featureImage); all three empty gives the default.
C3_OverridesExactlyNonEmptyFields ==
  FoundBlogReply =>
    LET b == resp.blog
        m == resp.metadata
    IN /\ m.Title = IF b.Title # ""
                      THEN HTMLEscapeString(b.Title \o " - GitHub Star History")
                      ELSE "GitHub Star History"
       /\ m.Description = IF b.Excerpt # ""
                            THEN HTMLEscapeString(b.Excerpt)
                            ELSE "View and compare GitHub star history graph of open source projects."
       /\ m.ImageURL = IF b.FeatureImage # ""
                         THEN HTMLEscapeString(InstanceURL \o b.FeatureImage)
                         ELSE "https://www.star-history.com/star-history.webp"
       /\ (b.Title # "") <=> (m.Title # "GitHub Star History")
       /\ (b.Excerpt # "")
            <=> (m.Description # "View and compare GitHub star history graph of open source projects.")
       /\ (b.FeatureImage # "")
            <=> (m.ImageURL # "https://www.star-history.com/star-history.webp")
       /\ (b.Title = "" /\ b.Excerpt = "" /\ b.FeatureImage = "")
            => m = [Title |-> "GitHub Star History",
                    Description |-> "View and compare GitHub star history graph of open source projects.",
                    ImageURL |-> "https://www.star-history.com/star-history.webp"]
       /\ resp.head = String(m)

C3_Witness ==
  /\ FoundBlogReply
  /\ resp.blog.Title # "" /\ resp.blog.Excerpt = "" /\ resp.blog.FeatureImage = ""

\* C4: in a reply to GET /blog/{slug} that found its entry, no raw <, > or "
\* of the entry's title, excerpt or feature image path reaches the markup:
\* each head tag carries its value with those characters HTML-escaped, so that
\* the value cannot end its tag or attribute and a parser reads the entry's
\* text back from it.
C4_EntryTextReachesMarkupEscaped ==
  FoundBlogReply =>
    \A l \in {Lines(resp.head)} :
    \A t \in {ShownTitle(resp.blog)} :
    \A d \in {ShownDescription(resp.blog)} :
    \A i \in {ShownImage(InstanceURL, resp.blog)} :
       /\ Len(l) = 12
       /\ SafeTag(l[1], "<title>", "</title>", t)
       /\ SafeTag(l[2], "<meta name=\"description\" content=\"", "\" />", d)
       /\ SafeTag(l[3], "<meta property=\"og:title\" content=\"", "\" />", t)
       /\ SafeTag(l[4], "<meta property=\"og:description\" content=\"", "\" />", d)
       /\ SafeTag(l[5], "<meta property=\"og:image\" content=\"", "\" />", i)
       /\ SafeTag(l[7], "<meta property=\"twitter:title\" content=\"", "\" />", t)
       /\ SafeTag(l[8], "<meta property=\"twitter:description\" content=\"", "\" />", d)
       /\ SafeTag(l[9], "<meta property=\"twitter:image\" content=\"", "\" />", i)
       /\ Contains(rawIndexHTML, HeadPlaceholder) => Contains(resp.body, resp.head)
       /\ \A raw \in {resp.blog.Title, resp.blog.Excerpt, resp.blog.FeatureImage} :
            HasMarkup(raw) => ~Contains(resp.body, raw)

C4_Witness ==
  /\ FoundBlogReply
  /\ HasMarkup(resp.blog.Title)
  /\ HasMarkup(resp.blog.Excerpt)
  /\ HasMarkup(resp.blog.FeatureImage)
  /\ Contains(resp.body, "&lt;script&gt;")

\* the sitemap document for the slugs, built element by element
RECURSIVE ExpectedUrls(_, _)
ExpectedUrls(url, blogs) ==
  IF blogs = <<>> THEN ""
  ELSE "<url><loc>" \o url \o "/blog/" \o Head(blogs).Slug \o "</loc></url>"
         \o (IF Len(blogs) > 1 THEN "\n" ELSE "") \o ExpectedUrls(url, Tail(blogs))

\* C5: for every catalog loaded at startup the /sitemap.xml reply has status
\* 200 and is one <urlset> root holding exactly one
\* <url><loc>{instanceURL}/blog/{slug}</loc></url> per catalog entry, in
\* catalog order, and no other <url>; zero of them for the empty catalog.
C5_SitemapListsEveryEntryOnce ==
  resp.route = "sitemap" =>
    /\ ~resp.panicked
    /\ resp.status = 200
    /\ HasPrefix(resp.body, "<urlset ")
    /\ HasSuffix(resp.body, "</urlset>")
    /\ Count(resp.body, "<urlset") = 1
    /\ Count(resp.body, "<url>") = Len(fileRoutesBlogs)
    /\ resp.body = UrlsetOpen \o ExpectedUrls(InstanceURL, fileRoutesBlogs) \o "</urlset>"

\* C6: loading skips each malformed item of the content index and keeps the
\* well-formed ones: no entry with a missing or empty slug is in the loaded
\* catalog, listed in /sitemap.xml or matched by GET /blog/{slug}.  (Stated
\* for the entries that are not nil.)
C6_MalformedEntriesSkipped ==
  pc = "serving" =>
    /\ \A i \in 1..Len(fileRoutesBlogs) :
         fileRoutesBlogs[i] # NilBlog => fileRoutesBlogs[i].Slug # ""
    /\ \A i \in 1..Len(blogRoutesBlogs) :
         blogRoutesBlogs[i] # NilBlog => blogRoutesBlogs[i].Slug # ""
    /\ ~Contains(SitemapHandler.body, "/blog/</loc>")

\* C7: a startup load failure never surfaces: a template that cannot be read
\* gives the empty raw template, a content index that cannot be read or
\* parsed gives the empty catalog, and every request is still answered 200.
C7_LoadFailuresDegradeToEmpty ==
  /\ (pc # "new" /\ loadErr.defaultIndexHTML) => defaultIndexHTML = ""
  /\ (pc = "serving" /\ loadErr.rawIndexHTML) => rawIndexHTML = ""
  /\ (pc # "new" /\ loadErr.fileRoutesBlogs) => fileRoutesBlogs = <<>>
  /\ (pc = "serving" /\ loadErr.blogRoutesBlogs) => blogRoutesBlogs = <<>>
  /\ ((loadErr.defaultIndexHTML \/ loadErr.rawIndexHTML \/ loadErr.fileRoutesBlogs
         \/ loadErr.blogRoutesBlogs) /\ resp.route # "none")
       => resp.status = 200

\* C8: when the template holds the head marker once, the body marker once and
\* no <title> of its own, the page sent for a found entry holds no placeholder
\* marker and exactly one <title> element, whatever the entry's title, excerpt
\* and image path are (a marker's own text included).
C8_NoResidualMarkerOneTitle ==
  (/\ FoundBlogReply
   /\ Count(rawIndexHTML, HeadPlaceholder) = 1
   /\ Count(rawIndexHTML, BodyPlaceholder) = 1
   /\ ~Contains(rawIndexHTML, "<title"))
    => /\ ~Contains(resp.body, HeadPlaceholder)
       /\ ~Contains(resp.body, BodyPlaceholder)
       /\ Count(resp.body, "<title") = 1
       /\ Count(resp.body, "</title>") = 1
       /\ Contains(resp.body, "<!-- star-history.blog." \o resp.slug \o " -->")

C8_Witness ==
  /\ FoundBlogReply
  /\ Count(rawIndexHTML, HeadPlaceholder) = 1
  /\ Count(rawIndexHTML, BodyPlaceholder) = 1
  /\ ~Contains(rawIndexHTML, "<title")
  /\ resp.blog.Excerpt = HeadPlaceholder
  /\ Contains(resp.blog.FeatureImage, BodyPlaceholder)

\* C9: the catalog is a snapshot: once startup is over, no step that leaves
\* dist/index.html alone (a request, or any change of dist/blog/data.json)
\* changes anything the /sitemap.xml and /blog/{slug} handlers compute their
\* replies from, so every reply is what it would be had the content index
\* never changed since startup.
C9_CatalogIsSnapshot ==
  [][(pc = "serving" /\ tmplFile' = tmplFile)
       => (SitemapInputs' = SitemapInputs /\ BlogInputs' = BlogInputs)]_vars

C9_Witness ==
  /\ pc = "serving"
  /\ getBlogForntmatters(dataFile).blogs # blogRoutesBlogs
  /\ getBlogForntmatters(dataFile).blogs # fileRoutesBlogs
  /\ fileRoutesBlogs # <<>>
  /\ resp.route = "sitemap"
  /\ ~resp.panicked

\* whether /sitemap.xml lists the slug
Listed(s) ==
  Contains(SitemapHandler.body, "<loc>" \o InstanceURL \o "/blog/" \o s \o "</loc>")

\* C10: in every serving state the slugs /sitemap.xml lists are the slugs for
\* which GET /blog/{slug} sends an entry-specific page, even when
\* dist/blog/data.json changes while startup runs.  (Stated for the states in
\* which the sitemap handler replies.)
C10_SitemapAndBlogRouteAgree ==
  (pc = "serving" /\ ~SitemapHandler.panicked)
    => \A s \in RequestSlugs : Listed(s) <=> BlogHandler(s).found

====
